---- MODULE Spec2Model ----
(***************************************************************************)
(* Model of app.py, a Streamlit dashboard script.  One run of the script   *)
(* (a "cycle") reads the sidebar controls, evaluates the layer blocks in   *)
(* source order, builds summary_input from graphs and calls the six agent  *)
(* functions in a loop.  An uncaught Python exception stops the script:    *)
(* Streamlit shows the exception and nothing after the raising statement   *)
(* is executed.  What was displayed before the exception stays displayed.  *)
(*                                                                         *)
(* JSON objects are records (DOMAIN = keys), JSON lists are sequences,     *)
(* Python str is a TLA+ string.                                            *)
(***************************************************************************)
EXTENDS Integers, Sequences, FiniteSets, TLC

VARIABLES
    city,          \* st.sidebar.text_input (line 17)
    show_layers,   \* st.sidebar.multiselect (lines 18-22), in selection order
    pc,            \* position of the script: a layer block, "aggregate", "agents", "done", "error"
    eq, covid, aq, news,   \* module-level names bound by the layer blocks
    graphs,        \* list of digest sentences (line 65)
    shown,         \* Streamlit elements displayed by the layer blocks, in order
    requests_log,  \* every requests.get(...).json() made: fetcher, url, response
    summary_input, \* line 131 ("" while the name is not yet bound)
    agent_i,       \* index of the next agent of the loop at line 163
    calls,         \* agent functions invoked so far, in order
    panels,        \* st.info panels displayed (line 164)
    error,         \* the uncaught exception that stopped the script, or NoError
    wcity, geo_resp, forecast_resp, wpc, weather, wrequests, werror
                   \* a call of get_weather (lines 32-39), see SpecWeather

vars == <<city, show_layers, pc, eq, covid, aq, news, graphs, shown, requests_log,
          summary_input, agent_i, calls, panels, error,
          wcity, geo_resp, forecast_resp, wpc, weather, wrequests, werror>>

dashVars == <<city, show_layers, pc, eq, covid, aq, news, graphs, shown, requests_log,
              summary_input, agent_i, calls, panels, error>>

weatherVars == <<wcity, geo_resp, forecast_resp, wpc, weather, wrequests, werror>>

-----------------------------------------------------------------------------
(* Bounds of the model *)

\* longest multiselect value explored (at most 6 distinct layers exist)
MaxSelected == 4

\* length of the long city name, chosen so that the digest exceeds MaxChars
LongCityLen == 1030

-----------------------------------------------------------------------------
(* Generic helpers *)

Range(s) == {s[i] : i \in 1..Len(s)}

Min(a, b) == IF a < b THEN a ELSE b

RECURSIVE Rep(_, _)
Rep(s, n) ==
    IF n = 0 THEN ""
    ELSE IF n % 2 = 1 THEN s \o Rep(s, n - 1)
    ELSE LET h == Rep(s, n \div 2) IN h \o h

\* sep.join(seq) of Python
RECURSIVE Join(_, _)
Join(sep, seq) ==
    IF seq = <<>> THEN ""
    ELSE IF Len(seq) = 1 THEN seq[1]
    ELSE seq[1] \o sep \o Join(sep, Tail(seq))

Digit(d) == SubSeq("0123456789", d + 1, d + 1)

\* str(n) of an int
RECURSIVE ToStr(_)
ToStr(n) ==
    IF n < 0 THEN "-" \o ToStr(0 - n)
    ELSE IF n < 10 THEN Digit(n)
    ELSE ToStr(n \div 10) \o Digit(n % 10)

Pad3(n) == Digit(n \div 100) \o Digit((n \div 10) % 10) \o Digit(n % 10)

\* format(n, ",") of an int: the f-string spec {...:,} of line 103
RECURSIVE FormatThousands(_)
FormatThousands(n) ==
    IF n < 0 THEN "-" \o FormatThousands(0 - n)
    ELSE IF n < 1000 THEN ToStr(n)
    ELSE FormatThousands(n \div 1000) \o "," \o Pad3(n % 1000)

\* repr of a str without quotes or escapes in it
StrRepr(x) == "'" \o x \o "'"

\* str(list) given the repr of each element: ['a', 'b']
PyListRepr(reprs) == "[" \o Join(", ", reprs) \o "]"

-----------------------------------------------------------------------------
(* Sidebar *)

Layers == {"Weather", "Earthquakes", "Air Quality", "COVID-19", "Disasters", "News"}

DefaultLayers == <<"Weather", "Earthquakes", "COVID-19">>

LongCity == Rep("x", LongCityLen)

Cities == {"New Delhi", LongCity}

\* the values a multiselect can return: distinct options in the order selected
RECURSIVE SelectionsOfLen(_)
SelectionsOfLen(k) ==
    IF k = 0 THEN {<<>>}
    ELSE UNION {{Append(s, l) : l \in Layers \ Range(s)} : s \in SelectionsOfLen(k - 1)}

Selections == UNION {SelectionsOfLen(k) : k \in 0..Min(MaxSelected, Cardinality(Layers))}

\* variant: the blocks test the default selection, not the user's
InShowLayers_Default(layer) == layer \in Range(DefaultLayers)

\* "X" in show_layers (lines 68, 98, 106, 115)
InShowLayers(layer) == layer \in Range(show_layers)

-----------------------------------------------------------------------------
(* Python values *)

\* a name that is not bound yet
Unset == [unset |-> TRUE]

\* Python None (line 36)
None == [none |-> TRUE]

NoError == [exc |-> "none", at |-> "none"]

\* requests.get(url) or .json() raising (connection error, body that is not JSON)
Raised == [raised |-> "RequestException"]

\* the value of an expression that raises instead of giving a value
PyRaise(exc) == [raised |-> exc]

\* the value of an expression that raises nothing
PyValue(v) == [value |-> v]

HasKey(d, k) == k \in DOMAIN d

\* A JSON object is a record and "key in d" is HasKey(d, key). A JSON value
\* that stands where the script expects an object (an answer, a feature, its
\* properties or geometry, a station, an article) or a number (the "time" of
\* a quake, line 74) carries its JSON type: None is null, Num(n) a number,
\* Str(x) a string, Bool(b) a boolean, List(xs) a list. The field names
\* none, num, str, bool and list are kept for these. A list that stands
\* where the script expects a list (features, coordinates, results,
\* measurements, articles) is a sequence.
Num(n) == [num |-> n]

Str(x) == [str |-> x]

Bool(b) == [bool |-> b]

List(xs) == [list |-> xs]

\* v is a JSON object (a Python dict)
IsObject(v) == DOMAIN v \cap {"none", "num", "str", "bool", "list"} = {}

\* v / 1000 does not raise TypeError (line 74); a bool is an int in Python
IsNumber(v) == HasKey(v, "num") \/ HasKey(v, "bool")

\* the exception v[k] raises for a string key k, or "none": a dict without
\* the key raises KeyError; None, a number, a boolean, a string and a list
\* raise TypeError
SubscriptError(v, k) ==
    IF ~IsObject(v) THEN "TypeError"
    ELSE IF ~HasKey(v, k) THEN "KeyError"
    ELSE "none"

\* the exception "k in v" raises, or "none": None, a number and a boolean
\* are not iterable (TypeError); a dict, a list and a string are searched
InError(v) ==
    IF HasKey(v, "none") \/ HasKey(v, "num") \/ HasKey(v, "bool") THEN "TypeError"
    ELSE "none"

\* k is a substring of x
Contains(x, k) ==
    \E i \in 1..(Len(x) - Len(k) + 1) : SubSeq(x, i, i + Len(k) - 1) = k

\* the value of "k in v" when it raises nothing: a key of the dict, an
\* element of the list, a substring of the string
In(k, v) ==
    IF IsObject(v) THEN HasKey(v, k)
    ELSE IF HasKey(v, "list") THEN \E i \in 1..Len(v.list) : v.list[i] = Str(k)
    ELSE IF HasKey(v, "str") THEN Contains(v.str, k)
    ELSE FALSE

-----------------------------------------------------------------------------
(* What the upstream services may answer *)

Quake == [properties |-> [place |-> "10km S of X", mag |-> 5, time |-> Num(1000)],
          geometry |-> [coordinates |-> <<77, 28, 10>>]]

\* a quake whose coordinates list is too short for [1]
QuakeShort == [properties |-> [place |-> "10km S of X", mag |-> 5, time |-> Num(1000)],
               geometry |-> [coordinates |-> <<77>>]]

\* a quake whose time is not a number
QuakeNoTime == [properties |-> [place |-> "10km S of X", mag |-> 5, time |-> Str("soon")],
                geometry |-> [coordinates |-> <<77, 28, 10>>]]

\* a quake whose geometry is null
QuakeNoGeometry == [properties |-> [place |-> "10km S of X", mag |-> 5, time |-> Num(1000)],
                    geometry |-> None]

EqResponses ==
    { Raised,
      [message |-> "Service Unavailable"],
      [type |-> "FeatureCollection", features |-> <<>>],
      [type |-> "FeatureCollection", features |-> <<Quake>>],
      [type |-> "FeatureCollection", features |-> <<[id |-> "q1"]>>],
      [type |-> "FeatureCollection", features |-> <<Quake, QuakeShort>>],
      [type |-> "FeatureCollection", features |-> <<QuakeNoTime>>],
      [type |-> "FeatureCollection", features |-> <<QuakeNoGeometry>>],
      [type |-> "FeatureCollection", features |-> <<None>>],
      None,
      List(<<Quake>>) }

CovidResponses ==
    { Raised,
      [message |-> "Service Unavailable"],
      [cases |-> 1000],
      [cases |-> 1234567, deaths |-> 7005],
      None,
      List(<<>>) }

Station == [location |-> "S1",
            measurements |-> << [parameter |-> "pm25", value |-> 12],
                                [parameter |-> "no2", value |-> 7] >>]

AqResponses ==
    { Raised,
      [message |-> "Gone"],
      [results |-> <<>>],
      [results |-> <<Station>>],
      [results |-> <<[location |-> "S2"]>>],
      [results |-> <<[location |-> "S3", measurements |-> <<>>]>>],
      [results |-> <<[measurements |-> <<[value |-> 3]>>]>>],
      [results |-> <<None>>],
      None,
      List(<<>>),
      List(<<Str("results")>>) }

NewsResponses ==
    { Raised,
      [status |-> "error"],
      [articles |-> <<>>],
      [articles |-> <<[title |-> "Climate talks"]>>],
      [articles |-> <<[url |-> "http://n/1"]>>],
      [articles |-> <<None>>],
      None,
      Str("no articles") }

DisasterResponses == { Raised, [data |-> <<>>] }

-----------------------------------------------------------------------------
(* Fetchers (lines 41-59): each returns requests.get(url).json() unchanged. *)
(* The argument is what the service answered; Raised propagates to the     *)
(* caller as an exception.                                                  *)

get_earthquakes(resp) == resp

get_covid(resp) == resp

get_air_quality(resp) == resp

get_disasters(resp) == resp

get_news(resp) == resp

FetcherOf(layer) ==
    CASE layer = "Weather" -> "get_weather"
      [] layer = "Earthquakes" -> "get_earthquakes"
      [] layer = "COVID-19" -> "get_covid"
      [] layer = "Air Quality" -> "get_air_quality"
      [] layer = "Disasters" -> "get_disasters"
      [] layer = "News" -> "get_news"

Request(layer, url, resp) == [fn |-> FetcherOf(layer), url |-> url, response |-> resp]

-----------------------------------------------------------------------------
(* get_weather (lines 32-39): geocode the city, then request the forecast. *)
(* g is the geocoding answer, f the forecast answer.  The result records   *)
(* the value returned (ret), the exception that left the function (exc,    *)
(* "none" when it returned) and the requests it issued.                    *)

GeoUrl(c) == "https://geocoding-api.open-meteo.com/v1/search?name=" \o c

ForecastUrl(lat, lon) ==
    "https://api.open-meteo.com/v1/forecast?latitude=" \o ToStr(lat) \o
    "&longitude=" \o ToStr(lon) \o "&hourly=temperature_2m"

\* lines 32-39. "results" not in g (line 35) raises TypeError on None, a
\* number and a boolean; on a list or a string that holds "results" the test
\* is false and g["results"] (line 37) raises TypeError
get_weather(c, g, f) ==
    LET req1 == [url |-> GeoUrl(c), response |-> g] IN
    IF g = Raised
    THEN [ret |-> Unset, exc |-> "RequestException", requests |-> <<req1>>]
    ELSE IF InError(g) # "none"
    THEN [ret |-> Unset, exc |-> InError(g), requests |-> <<req1>>]
    ELSE IF ~In("results", g)
    THEN [ret |-> None, exc |-> "none", requests |-> <<req1>>]
    ELSE IF SubscriptError(g, "results") # "none"
    THEN [ret |-> Unset, exc |-> SubscriptError(g, "results"), requests |-> <<req1>>]
    ELSE IF Len(g.results) = 0
    THEN [ret |-> Unset, exc |-> "IndexError", requests |-> <<req1>>]
    ELSE IF SubscriptError(g.results[1], "latitude") # "none"
    THEN [ret |-> Unset, exc |-> SubscriptError(g.results[1], "latitude"),
          requests |-> <<req1>>]
    ELSE IF SubscriptError(g.results[1], "longitude") # "none"
    THEN [ret |-> Unset, exc |-> SubscriptError(g.results[1], "longitude"),
          requests |-> <<req1>>]
    ELSE LET lat == g.results[1].latitude
             lon == g.results[1].longitude
             req2 == [url |-> ForecastUrl(lat, lon), response |-> f]
         IN  IF f = Raised
             THEN [ret |-> Unset, exc |-> "RequestException", requests |-> <<req1, req2>>]
             ELSE [ret |-> f, exc |-> "none", requests |-> <<req1, req2>>]

GeoResponses ==
    { Raised,
      [generationtime_ms |-> 1],
      [results |-> <<>>, generationtime_ms |-> 1],
      [results |-> <<[name |-> "New Delhi", latitude |-> 28, longitude |-> 77]>>],
      [results |-> <<[name |-> "Paris", latitude |-> 48, longitude |-> 2],
                     [name |-> "Paris", latitude |-> 33, longitude |-> 95]>>],
      [results |-> <<[name |-> "Nowhere"]>>],
      [results |-> <<None>>],
      None,
      Num(5),
      List(<<>>),
      List(<<Str("results")>>),
      Str("results") }

ForecastResponses ==
    { Raised,
      [hourly |-> [temperature_2m |-> <<21, 22>>]],
      [hourly |-> [temperature_2m |-> <<>>]],
      [error |-> TRUE, reason |-> "out of range"] }

-----------------------------------------------------------------------------
(* Digest sentences appended to graphs *)

\* line 95
EarthquakeDigest == "Earthquake activity shows seismic hotspots."

\* line 103; covid['cases'] or covid['deaths'] raises KeyError on a missing
\* key and TypeError when the answer is not an object
CovidDigest(c) ==
    IF SubscriptError(c, "cases") # "none" THEN PyRaise(SubscriptError(c, "cases"))
    ELSE IF SubscriptError(c, "deaths") # "none" THEN PyRaise(SubscriptError(c, "deaths"))
    ELSE "Global COVID-19 cases " \o FormatThousands(c.cases) \o
         ", deaths " \o FormatThousands(c.deaths) \o "."

\* the columns of aq_df (line 109): the keys of the measurement rows; a
\* DataFrame built from an empty list has no column
AqColumns(a) ==
    UNION {DOMAIN a.results[1].measurements[i] : i \in 1..Len(a.results[1].measurements)}

\* the exception raised on the way to aq_df['parameter'] (lines 109, 112), or "none"
AqParametersError(a) ==
    IF SubscriptError(a, "results") # "none" THEN SubscriptError(a, "results")
    ELSE IF Len(a.results) = 0 THEN "IndexError"
    ELSE IF SubscriptError(a.results[1], "measurements") # "none"
    THEN SubscriptError(a.results[1], "measurements")
    ELSE IF "parameter" \notin AqColumns(a) THEN "KeyError"
    ELSE "none"

\* the elements of list(aq_df['parameter']) (lines 109, 112), each as its repr.
\* aq_df['parameter'] raises KeyError when no row has the key; when some row
\* has it, a row without it holds NaN
AqParameters(a) ==
    IF AqParametersError(a) # "none" THEN PyRaise(AqParametersError(a))
    ELSE LET ms == a.results[1].measurements IN
         [i \in 1..Len(ms) |->
             IF HasKey(ms[i], "parameter") THEN StrRepr(ms[i].parameter) ELSE "nan"]

\* line 112, with aq_df of line 109
AirQualityDigest(c, a) ==
    IF AqParametersError(a) # "none" THEN PyRaise(AqParametersError(a))
    ELSE "Air Quality in " \o c \o " shows levels of pollutants: " \o
         PyListRepr(AqParameters(a)) \o "."

\* line 123
NewsDigest == "News headlines show climate and geopolitical issues trending."

-----------------------------------------------------------------------------
(* Conditions of the layer blocks *)

\* the exception the dict display of lines 71-77 raises on feature f, or
\* "none"; the entries are evaluated in the order written
FeatureError(f) ==
    IF SubscriptError(f, "properties") # "none" THEN SubscriptError(f, "properties")
    ELSE IF SubscriptError(f.properties, "place") # "none"
    THEN SubscriptError(f.properties, "place")
    ELSE IF SubscriptError(f.properties, "mag") # "none"
    THEN SubscriptError(f.properties, "mag")
    ELSE IF SubscriptError(f.properties, "time") # "none"
    THEN SubscriptError(f.properties, "time")
    ELSE IF ~IsNumber(f.properties.time) THEN "TypeError"
    ELSE IF SubscriptError(f, "geometry") # "none" THEN SubscriptError(f, "geometry")
    ELSE IF SubscriptError(f.geometry, "coordinates") # "none"
    THEN SubscriptError(f.geometry, "coordinates")
    ELSE IF Len(f.geometry.coordinates) < 2 THEN "IndexError"
    ELSE "none"

\* the exception of the first feature that raises, or "none"
RECURSIVE FirstFeatureError(_)
FirstFeatureError(fs) ==
    IF fs = <<>> THEN "none"
    ELSE IF FeatureError(Head(fs)) # "none" THEN FeatureError(Head(fs))
    ELSE FirstFeatureError(Tail(fs))

\* the exception the list comprehension of lines 70-79 raises, or "none"
EqError(e) ==
    IF SubscriptError(e, "features") # "none" THEN SubscriptError(e, "features")
    ELSE FirstFeatureError(e.features)

\* the list comprehension of lines 70-79 raises nothing
EqReadable(e) == EqError(e) = "none"

\* the exception covid["cases"] raises (line 101), or "none"
CovidCasesError(c) == SubscriptError(c, "cases")

\* the exception covid["deaths"] raises (line 102), or "none"
CovidDeathsError(c) == SubscriptError(c, "deaths")

\* covid["cases"], covid["deaths"] raise nothing (lines 101-103)
CovidReadable(c) == CovidCasesError(c) = "none" /\ CovidDeathsError(c) = "none"

\* the condition of line 108, "results" in aq and len(aq["results"]) > 0:
\* its truth value, or the exception it raises. The right operand is
\* evaluated only when the left one is true; on a list or a string that
\* holds "results" the subscript raises TypeError
AqHasResults(a) ==
    IF InError(a) # "none" THEN PyRaise(InError(a))
    ELSE IF ~In("results", a) THEN PyValue(FALSE)
    ELSE IF SubscriptError(a, "results") # "none" THEN PyRaise(SubscriptError(a, "results"))
    ELSE PyValue(Len(a.results) > 0)

\* the exception aq["results"][0]["measurements"] raises (line 109), or
\* "none", once the condition of line 108 is true
AqMeasurementsError(a) == SubscriptError(a.results[1], "measurements")

\* aq["results"][0]["measurements"] (line 109) raises nothing
AqHasMeasurements(a) == AqMeasurementsError(a) = "none"

\* aq_df.set_index("parameter")["value"] (line 111)
AqChartable(a) == "parameter" \in AqColumns(a) /\ "value" \in AqColumns(a)

\* the condition of line 117, "articles" in news: its truth value, or the
\* exception it raises
NewsHasArticles(n) ==
    IF InError(n) # "none" THEN PyRaise(InError(n))
    ELSE PyValue(In("articles", n))

\* news["articles"][:10]
FirstTen(xs) == SubSeq(xs, 1, Min(Len(xs), 10))

\* the exception of the first article on which a["title"] raises, or "none"
RECURSIVE FirstArticleError(_)
FirstArticleError(as) ==
    IF as = <<>> THEN "none"
    ELSE IF SubscriptError(Head(as), "title") # "none" THEN SubscriptError(Head(as), "title")
    ELSE FirstArticleError(Tail(as))

\* the exception the list comprehension of line 118 raises, or "none"
NewsError(n) ==
    IF SubscriptError(n, "articles") # "none" THEN SubscriptError(n, "articles")
    ELSE FirstArticleError(FirstTen(n.articles))

\* the list comprehension of line 118 raises nothing
NewsReadable(n) == NewsError(n) = "none"

-----------------------------------------------------------------------------
(* Order of the layer blocks in the script (lines 67-123) *)

\* variant: the blocks run in the order the user selected the layers
EvaluationOrder_UserOrder ==
    SelectSeq(show_layers,
              LAMBDA l : l \in {"Earthquakes", "COVID-19", "Air Quality", "News"}) \o
    SelectSeq(<<"Earthquakes", "COVID-19", "Air Quality", "News">>,
              LAMBDA l : l \notin Range(show_layers))

EvaluationOrder == <<"Earthquakes", "COVID-19", "Air Quality", "News">>

IndexOf(layer) == CHOOSE i \in 1..Len(EvaluationOrder) : EvaluationOrder[i] = layer

\* where the script goes after the block of a layer
After(layer) ==
    IF IndexOf(layer) < Len(EvaluationOrder)
    THEN EvaluationOrder[IndexOf(layer) + 1]
    ELSE "aggregate"

Element(layer, kind) == [layer |-> layer, element |-> kind]

\* an uncaught exception ends the script run
Raise(exc, at) ==
    /\ pc' = "error"
    /\ error' = [exc |-> exc, at |-> at]

Continue(layer) ==
    /\ pc' = After(layer)
    /\ error' = error

EqUrl == "https://earthquake.usgs.gov/earthquakes/feed/v1.0/summary/all_day.geojson"

CovidUrl == "https://disease.sh/v3/covid-19/all"

AqUrl(c) == "https://api.openaq.org/v2/latest?city=" \o c

NewsUrl == "https://api.gdeltproject.org/api/v2/doc/doc?query=climate&mode=artlist&format=json"

\* lines 68-95
EarthquakesBlock ==
    /\ pc = "Earthquakes"
    /\ UNCHANGED <<city, show_layers, covid, aq, news, summary_input, agent_i, calls, panels>>
    /\ UNCHANGED weatherVars
    /\ IF ~InShowLayers("Earthquakes")
       THEN Continue("Earthquakes") /\ UNCHANGED <<eq, graphs, shown, requests_log>>
       ELSE \E resp \in EqResponses :
            /\ requests_log' = Append(requests_log, Request("Earthquakes", EqUrl, resp))
            /\ IF resp = Raised
               THEN Raise("RequestException", "Earthquakes") /\ UNCHANGED <<eq, graphs, shown>>
               ELSE /\ eq' = get_earthquakes(resp)
                    /\ IF ~EqReadable(eq')
                       THEN Raise(EqError(eq'), "Earthquakes") /\ UNCHANGED <<graphs, shown>>
                       ELSE /\ shown' = shown \o <<Element("Earthquakes", "subheader"),
                                                   Element("Earthquakes", "pydeck_chart")>>
                            /\ graphs' = Append(graphs, EarthquakeDigest)
                            /\ Continue("Earthquakes")

\* lines 98-103
CovidBlock ==
    /\ pc = "COVID-19"
    /\ UNCHANGED <<city, show_layers, eq, aq, news, summary_input, agent_i, calls, panels>>
    /\ UNCHANGED weatherVars
    /\ IF ~InShowLayers("COVID-19")
       THEN Continue("COVID-19") /\ UNCHANGED <<covid, graphs, shown, requests_log>>
       ELSE \E resp \in CovidResponses :
            /\ requests_log' = Append(requests_log, Request("COVID-19", CovidUrl, resp))
            /\ IF resp = Raised
               THEN Raise("RequestException", "COVID-19") /\ UNCHANGED <<covid, graphs, shown>>
               ELSE /\ covid' = get_covid(resp)
                    /\ IF CovidCasesError(covid') # "none"
                       THEN /\ shown' = Append(shown, Element("COVID-19", "subheader"))
                            /\ Raise(CovidCasesError(covid'), "COVID-19")
                            /\ UNCHANGED graphs
                       ELSE IF CovidDeathsError(covid') # "none"
                       THEN /\ shown' = shown \o <<Element("COVID-19", "subheader"),
                                                   Element("COVID-19", "metric")>>
                            /\ Raise(CovidDeathsError(covid'), "COVID-19")
                            /\ UNCHANGED graphs
                       ELSE /\ shown' = shown \o <<Element("COVID-19", "subheader"),
                                                   Element("COVID-19", "metric"),
                                                   Element("COVID-19", "metric")>>
                            /\ graphs' = Append(graphs, CovidDigest(covid'))
                            /\ Continue("COVID-19")

\* lines 106-112
AirQualityBlock ==
    /\ pc = "Air Quality"
    /\ UNCHANGED <<city, show_layers, eq, covid, news, summary_input, agent_i, calls, panels>>
    /\ UNCHANGED weatherVars
    /\ IF ~InShowLayers("Air Quality")
       THEN Continue("Air Quality") /\ UNCHANGED <<aq, graphs, shown, requests_log>>
       ELSE \E resp \in AqResponses :
            /\ requests_log' = Append(requests_log, Request("Air Quality", AqUrl(city), resp))
            /\ IF resp = Raised
               THEN Raise("RequestException", "Air Quality") /\ UNCHANGED <<aq, graphs, shown>>
               ELSE /\ aq' = get_air_quality(resp)
                    /\ IF HasKey(AqHasResults(aq'), "raised")
                       THEN /\ Raise(AqHasResults(aq').raised, "Air Quality")
                            /\ UNCHANGED <<graphs, shown>>
                       ELSE IF ~AqHasResults(aq').value
                       THEN Continue("Air Quality") /\ UNCHANGED <<graphs, shown>>
                       ELSE IF AqMeasurementsError(aq') # "none"
                       THEN /\ Raise(AqMeasurementsError(aq'), "Air Quality")
                            /\ UNCHANGED <<graphs, shown>>
                       ELSE IF ~AqChartable(aq')
                       THEN /\ shown' = Append(shown, Element("Air Quality", "subheader"))
                            /\ Raise("KeyError", "Air Quality")
                            /\ UNCHANGED graphs
                       ELSE /\ shown' = shown \o <<Element("Air Quality", "subheader"),
                                                   Element("Air Quality", "bar_chart")>>
                            /\ graphs' = Append(graphs, AirQualityDigest(city, aq'))
                            /\ Continue("Air Quality")

\* lines 115-123
NewsBlock ==
    /\ pc = "News"
    /\ UNCHANGED <<city, show_layers, eq, covid, aq, summary_input, agent_i, calls, panels>>
    /\ UNCHANGED weatherVars
    /\ IF ~InShowLayers("News")
       THEN Continue("News") /\ UNCHANGED <<news, graphs, shown, requests_log>>
       ELSE \E resp \in NewsResponses :
            /\ requests_log' = Append(requests_log, Request("News", NewsUrl, resp))
            /\ IF resp = Raised
               THEN Raise("RequestException", "News") /\ UNCHANGED <<news, graphs, shown>>
               ELSE /\ news' = get_news(resp)
                    /\ IF HasKey(NewsHasArticles(news'), "raised")
                       THEN /\ Raise(NewsHasArticles(news').raised, "News")
                            /\ UNCHANGED <<graphs, shown>>
                       ELSE IF ~NewsHasArticles(news').value
                       THEN Continue("News") /\ UNCHANGED <<graphs, shown>>
                       ELSE IF NewsError(news') # "none"
                       THEN Raise(NewsError(news'), "News") /\ UNCHANGED <<graphs, shown>>
                       ELSE /\ shown' = shown \o <<Element("News", "subheader"),
                                                   Element("News", "altair_chart")>>
                            /\ graphs' = Append(graphs, NewsDigest)
                            /\ Continue("News")

-----------------------------------------------------------------------------
(* Aggregation and the agent loop (lines 129-164) *)

\* variant: the join without the placeholder
SummaryInput_NoPlaceholder(g) == Join(" ", g)

\* line 131
SummaryInput(g) == IF g # <<>> THEN Join(" ", g) ELSE "No data selected."

\* the slice bound of text[:1024] (lines 137-152)
MaxChars == 1024

\* text[:MaxChars]
Slice(text) == SubSeq(text, 1, Min(Len(text), MaxChars))

\* The summarization pipeline (line 134) when it answers: one result whose
\* summary_text is a function of the input alone.  The function is kept
\* injective so that two summaries agree only when the inputs agree.
summarizer(text) == << [summary_text |-> "summary(" \o text \o ")"] >>

langchain_summary(text) == "LangChain Agent: " \o summarizer(Slice(text))[1].summary_text

llamaindex_summary(text) == "LlamaIndex Agent: " \o summarizer(Slice(text))[1].summary_text

haystack_summary(text) == "Haystack Agent: " \o summarizer(Slice(text))[1].summary_text

hf_summary(text) == "HuggingFace Agent: " \o summarizer(Slice(text))[1].summary_text

autogen_summary(text) == "AutoGen Agent: " \o summarizer(Slice(text))[1].summary_text

\* variant: one agent passes the text without the slice
rasa_summary_NoSlice(text) == "Rasa Agent: " \o summarizer(text)[1].summary_text

rasa_summary(text) == "Rasa Agent: " \o summarizer(Slice(text))[1].summary_text

\* lines 154-161
agents == <<"langchain_summary", "llamaindex_summary", "haystack_summary",
            "hf_summary", "autogen_summary", "rasa_summary">>

\* agents[i](text)
AgentCall(i, text) ==
    CASE i = 1 -> langchain_summary(text)
      [] i = 2 -> llamaindex_summary(text)
      [] i = 3 -> haystack_summary(text)
      [] i = 4 -> hf_summary(text)
      [] i = 5 -> autogen_summary(text)
      [] i = 6 -> rasa_summary(text)

\* lines 129-134; building the pipeline (line 134: the model is loaded, on a
\* first run downloaded) may raise, after summary_input is bound
Aggregate ==
    /\ pc = "aggregate"
    /\ summary_input' = SummaryInput(graphs)
    /\ agent_i' = 1
    /\ \E ok \in BOOLEAN :
          IF ok
          THEN pc' = "agents" /\ error' = error
          ELSE Raise("OSError", "line 134")
    /\ UNCHANGED <<city, show_layers, eq, covid, aq, news, graphs, shown, requests_log,
                   calls, panels>>
    /\ UNCHANGED weatherVars

\* variant: a failed call is replaced by a fallback panel and the loop goes on
AgentStep_Fallback ==
    /\ pc = "agents"
    /\ calls' = Append(calls, agents[agent_i])
    /\ \E ok \in BOOLEAN :
          panels' = Append(panels, IF ok THEN AgentCall(agent_i, summary_input)
                                         ELSE "Summary unavailable.")
    /\ agent_i' = agent_i + 1
    /\ pc' = IF agent_i = Len(agents) THEN "done" ELSE "agents"
    /\ UNCHANGED <<city, show_layers, eq, covid, aq, news, graphs, shown, requests_log,
                   summary_input, error>>
    /\ UNCHANGED weatherVars

\* one iteration of the loop of lines 163-164; the pipeline call may raise
AgentStep ==
    /\ pc = "agents"
    /\ calls' = Append(calls, agents[agent_i])
    /\ \E ok \in BOOLEAN :
          IF ok
          THEN /\ panels' = Append(panels, AgentCall(agent_i, summary_input))
               /\ agent_i' = agent_i + 1
               /\ pc' = IF agent_i = Len(agents) THEN "done" ELSE "agents"
               /\ error' = error
          ELSE /\ Raise("SummarizationError", agents[agent_i])
               /\ UNCHANGED <<panels, agent_i>>
    /\ UNCHANGED <<city, show_layers, eq, covid, aq, news, graphs, shown, requests_log,
                   summary_input>>
    /\ UNCHANGED weatherVars

-----------------------------------------------------------------------------
(* The script runs again, top to bottom, after each interaction with a     *)
(* sidebar widget; every module-level name is bound afresh.                *)

\* variant: the list of the previous run is kept
NewGraphs_Kept == graphs

\* line 65
NewGraphs == <<>>

StartCycle(c, sel) ==
    /\ city' = c
    /\ show_layers' = sel
    /\ pc' = EvaluationOrder[1]
    /\ eq' = Unset /\ covid' = Unset /\ aq' = Unset /\ news' = Unset
    /\ graphs' = NewGraphs
    /\ shown' = <<>>
    /\ requests_log' = <<>>
    /\ summary_input' = ""
    /\ agent_i' = 1
    /\ calls' = <<>>
    /\ panels' = <<>>
    /\ error' = NoError

Without(sel, layer) == SelectSeq(sel, LAMBDA l : l # layer)

Rerun ==
    /\ pc \in {"done", "error"}
    /\ UNCHANGED weatherVars
    /\ \/ StartCycle(city, show_layers)
       \/ \E c \in Cities \ {city} : StartCycle(c, show_layers)
       \/ \E l \in Layers \ Range(show_layers) :
             /\ Len(show_layers) < MaxSelected
             /\ StartCycle(city, Append(show_layers, l))
       \/ \E l \in Range(show_layers) : StartCycle(city, Without(show_layers, l))

WeatherIdle ==
    /\ wcity = "New Delhi"
    /\ geo_resp = Unset
    /\ forecast_resp = Unset
    /\ wpc = "idle"
    /\ weather = Unset
    /\ wrequests = <<>>
    /\ werror = "none"

\* first load: the widgets hold their defaults (lines 17, 21)
Init ==
    /\ city = "New Delhi"
    /\ show_layers = DefaultLayers
    /\ pc = EvaluationOrder[1]
    /\ eq = Unset /\ covid = Unset /\ aq = Unset /\ news = Unset
    /\ graphs = <<>>
    /\ shown = <<>>
    /\ requests_log = <<>>
    /\ summary_input = ""
    /\ agent_i = 1
    /\ calls = <<>>
    /\ panels = <<>>
    /\ error = NoError
    /\ WeatherIdle

Next ==
    \/ EarthquakesBlock
    \/ CovidBlock
    \/ AirQualityBlock
    \/ NewsBlock
    \/ Aggregate
    \/ AgentStep
    \/ Rerun

Spec == Init /\ [][Next]_vars

-----------------------------------------------------------------------------
(* get_weather applied to every answer of the two services it asks.  The   *)
(* script defines the function and never calls it, so it is exercised on   *)
(* its own.                                                                *)

InitWeather ==
    /\ city = "New Delhi"
    /\ show_layers = DefaultLayers
    /\ pc = "idle"
    /\ eq = Unset /\ covid = Unset /\ aq = Unset /\ news = Unset
    /\ graphs = <<>>
    /\ shown = <<>>
    /\ requests_log = <<>>
    /\ summary_input = ""
    /\ agent_i = 1
    /\ calls = <<>>
    /\ panels = <<>>
    /\ error = NoError
    /\ wcity \in Cities \cup {"Paris"}
    /\ geo_resp \in GeoResponses
    /\ forecast_resp \in ForecastResponses
    /\ wpc = "call"
    /\ weather = Unset
    /\ wrequests = <<>>
    /\ werror = "none"

CallGetWeather ==
    /\ wpc = "call"
    /\ LET r == get_weather(wcity, geo_resp, forecast_resp) IN
          /\ weather' = r.ret
          /\ werror' = r.exc
          /\ wrequests' = r.requests
          /\ wpc' = IF r.exc = "none" THEN "returned" ELSE "raised"
    /\ UNCHANGED <<wcity, geo_resp, forecast_resp>>
    /\ UNCHANGED dashVars

NextWeather == CallGetWeather

SpecWeather == InitWeather /\ [][NextWeather]_vars

-----------------------------------------------------------------------------
(* Vocabulary of the properties *)

\* the script run has ended: it reached its last line or stopped on an exception
CycleOver == pc \in {"done", "error"}

\* line 131 has been executed in this run
AggregatorRan ==
    \/ pc \in {"agents", "done"}
    \/ pc = "error" /\ error.at = "line 134"
    \/ pc = "error" /\ error.exc = "SummarizationError"

\* the pipeline could not be built: the run stopped at line 134
PipelineFailed == pc = "error" /\ error.at = "line 134"

SummarizationFailed == pc = "error" /\ error.exc = "SummarizationError"

\* the layers that have a block in the script
BlockLayers == {"Earthquakes", "COVID-19", "Air Quality", "News"}

\* the order of the blocks, written out
CanonicalOrder == <<"Earthquakes", "COVID-19", "Air Quality", "News">>

RequestsOf(layer) ==
    {i \in 1..Len(requests_log) : requests_log[i].fn = FetcherOf(layer)}

Fetched(layer) == RequestsOf(layer) # {}

\* the answer holds everything the layer's block reads from it
Usable(layer, resp) ==
    /\ resp # Raised
    /\ CASE layer = "Earthquakes" -> EqReadable(resp)
         [] layer = "COVID-19" -> CovidReadable(resp)
         [] layer = "Air Quality" ->
               /\ AqHasResults(resp) = PyValue(TRUE)
               /\ AqHasMeasurements(resp)
               /\ AqChartable(resp)
         [] layer = "News" -> NewsHasArticles(resp) = PyValue(TRUE) /\ NewsReadable(resp)
         [] OTHER -> TRUE

FetchSucceeded(layer) ==
    \E i \in RequestsOf(layer) : Usable(layer, requests_log[i].response)

FetchFailed(layer) ==
    \E i \in RequestsOf(layer) : ~Usable(layer, requests_log[i].response)

StartsWith(str, prefix) ==
    Len(str) >= Len(prefix) /\ SubSeq(str, 1, Len(prefix)) = prefix

\* str is the digest sentence of the layer
IsDigestOf(layer, str) ==
    CASE layer = "Earthquakes" -> str = EarthquakeDigest
      [] layer = "COVID-19" -> StartsWith(str, "Global COVID-19 cases ")
      [] layer = "Air Quality" -> StartsWith(str, "Air Quality in ")
      [] layer = "News" -> str = NewsDigest
      [] OTHER -> FALSE

EntriesOf(layer) == {i \in 1..Len(graphs) : IsDigestOf(layer, graphs[i])}

WidgetsOf(layer) == {i \in 1..Len(shown) : shown[i].layer = layer}

\* the air-quality service answered with an object that names no station:
\* no results key or an empty list
ZeroStations(resp) ==
    /\ resp # Raised
    /\ IsObject(resp)
    /\ (~HasKey(resp, "results") \/ Len(resp.results) = 0)

AqAnsweredZero ==
    \E i \in RequestsOf("Air Quality") : ZeroStations(requests_log[i].response)

IsPrefix(a, b) == Len(a) <= Len(b) /\ SubSeq(b, 1, Len(a)) = a

-----------------------------------------------------------------------------
(* C1 *)

\* C1: when the fetch of a selected layer fails, only that layer is skipped:
\* at the end of the run every other selected layer that has a block was
\* fetched, the aggregator ran and the six agent calls were made (unless the
\* summarization itself failed).
C1_FailureIsolation ==
    \A l \in Range(show_layers) :
        (CycleOver /\ FetchFailed(l)) =>
            /\ \A m \in (Range(show_layers) \cap BlockLayers) \ {l} : Fetched(m)
            /\ AggregatorRan
            /\ (Len(calls) = Len(agents) \/ SummarizationFailed \/ PipelineFailed)

-----------------------------------------------------------------------------
(* C2 *)

\* C2: when the aggregator runs, the fetcher of every selected layer of the
\* six has been called exactly once, and the fetchers were called in the
\* canonical order whatever the order of selection.
C2_EverySelectedFetchedOnce ==
    AggregatorRan =>
        /\ \A l \in Range(show_layers) : Cardinality(RequestsOf(l)) = 1
        /\ [i \in 1..Len(requests_log) |-> requests_log[i].fn] =
              [i \in 1..Len(SelectSeq(CanonicalOrder, LAMBDA l : l \in Range(show_layers)))
                  |-> FetcherOf(SelectSeq(CanonicalOrder,
                                          LAMBDA l : l \in Range(show_layers))[i])]

-----------------------------------------------------------------------------
(* C3 *)

\* C3: every fetcher call of a run is the call of the fetcher of a layer
\* that is in show_layers.
C3_OnlySelectedFetched ==
    \A i \in 1..Len(requests_log) :
        \E l \in Range(show_layers) : requests_log[i].fn = FetcherOf(l)

\* a finished run in which News was fetched and Earthquakes, not selected, was not
C3_Witness ==
    /\ pc = "done"
    /\ "News" \in Range(show_layers)
    /\ "Earthquakes" \notin Range(show_layers)
    /\ Fetched("News")

-----------------------------------------------------------------------------
(* C4 *)

\* the geocoding service answered with an object that holds zero results:
\* no results key or an empty list
ZeroResults(g) ==
    /\ g # Raised
    /\ IsObject(g)
    /\ (~HasKey(g, "results") \/ Len(g.results) = 0)

\* C4: on a geocoding answer with zero results (the key absent or the list
\* empty) get_weather returns the failure value None, raises nothing and
\* issues no forecast request.
C4_ZeroResultsIsFailure ==
    (wpc # "call" /\ ZeroResults(geo_resp)) =>
        /\ werror = "none"
        /\ weather = None
        /\ Len(wrequests) = 1

-----------------------------------------------------------------------------
(* C5 *)

\* C5 as stated: when the air-quality service answers with zero stations the
\* fetcher itself returns a failure value (not the empty payload), and the
\* layer shows no widget and appends no entry.
C5_FetcherReturnsFailure ==
    (AqAnsweredZero /\ pc # "Air Quality") =>
        /\ aq = None
        /\ WidgetsOf("Air Quality") = {}
        /\ EntriesOf("Air Quality") = {}

-----------------------------------------------------------------------------
(* C6 *)

\* C6: the text handed to the agents is never the empty string; with no
\* entry it is the placeholder, with one entry it is that entry.
C6_BlobNeverEmpty ==
    AggregatorRan =>
        /\ summary_input # ""
        /\ (Len(graphs) = 0 => summary_input = "No data selected.")
        /\ (Len(graphs) = 1 => summary_input = graphs[1])

\* the agents are running on a digest with no entry although a layer was selected
C6_Witness ==
    /\ pc = "agents"
    /\ calls # <<>>
    /\ graphs = <<>>
    /\ "Air Quality" \in Range(show_layers)

-----------------------------------------------------------------------------
(* C7 *)

\* the entry a layer contributes, from the set of selected layers, the city
\* and the answers received alone
EntryOf(layer, selected) ==
    IF layer \notin selected THEN <<>>
    ELSE CASE layer = "Earthquakes" -> <<EarthquakeDigest>>
           [] layer = "COVID-19" -> <<CovidDigest(covid)>>
           [] layer = "Air Quality" ->
                 IF AqHasResults(aq) = PyValue(TRUE)
                 THEN <<AirQualityDigest(city, aq)>> ELSE <<>>
           [] layer = "News" ->
                 IF NewsHasArticles(news) = PyValue(TRUE) THEN <<NewsDigest>> ELSE <<>>

CanonicalEntries(selected) ==
    EntryOf(CanonicalOrder[1], selected) \o EntryOf(CanonicalOrder[2], selected) \o
    EntryOf(CanonicalOrder[3], selected) \o EntryOf(CanonicalOrder[4], selected)

\* C7: the text handed to the agents is the single-space join of the entries
\* in canonical layer order; it is determined by the set of selected layers
\* and the answers received, not by the order of selection.
C7_BlobIsCanonicalJoin ==
    (AggregatorRan /\ graphs # <<>>) =>
        summary_input = Join(" ", CanonicalEntries(Range(show_layers)))

\* News was selected before Earthquakes and both contributed an entry
C7_Witness ==
    /\ pc = "done"
    /\ Len(show_layers) >= 2
    /\ show_layers[1] = "News"
    /\ "Earthquakes" \in Range(show_layers)
    /\ Len(graphs) >= 2

-----------------------------------------------------------------------------
(* C8 *)

Labels == <<"LangChain Agent: ", "LlamaIndex Agent: ", "Haystack Agent: ",
            "HuggingFace Agent: ", "AutoGen Agent: ", "Rasa Agent: ">>

StripLabel(panel, label) == SubSeq(panel, Len(label) + 1, Len(panel))

\* C8: in a run where the six calls succeed, the six agents were invoked once
\* each in the fixed order, every panel starts with its own label, and after
\* stripping the label every panel is the summary of the first MaxChars
\* characters of the text.
C8_SixIdenticalSummaries ==
    pc = "done" =>
        /\ calls = agents
        /\ Len(panels) = Len(Labels)
        /\ \A i \in 1..Len(panels) :
              /\ StartsWith(panels[i], Labels[i])
              /\ StripLabel(panels[i], Labels[i]) =
                    summarizer(SubSeq(summary_input, 1,
                                      Min(Len(summary_input), MaxChars)))[1].summary_text
        /\ \A i, j \in 1..Len(panels) :
              StripLabel(panels[i], Labels[i]) = StripLabel(panels[j], Labels[j])

\* a finished run whose text was longer than the slice
C8_Witness ==
    /\ pc = "done"
    /\ Len(summary_input) > MaxChars

-----------------------------------------------------------------------------
(* C9 *)

\* C9 as stated: when a summarization call fails no panel is displayed in
\* that run; the panels are shown all six or not at all.
C9_AllOrNothing ==
    /\ SummarizationFailed => panels = <<>>
    /\ CycleOver => Len(panels) \in {0, Len(agents)}

\* C9 amended: when the k-th call fails the exception stops the run at that
\* agent; the panels of the k-1 earlier agents are displayed, there is no
\* panel for the k-th or a later agent, and no panel ever holds anything but
\* the labelled summary of its agent.  When the pipeline itself cannot be
\* built no agent is called and no panel is displayed.
C9_PanelsBeforeFailureStay ==
    /\ \A i \in 1..Len(panels) : panels[i] = AgentCall(i, summary_input)
    /\ SummarizationFailed =>
          /\ calls = SubSeq(agents, 1, Len(calls))
          /\ error.at = agents[Len(calls)]
          /\ Len(panels) = Len(calls) - 1
    /\ PipelineFailed => (calls = <<>> /\ panels = <<>>)
    /\ (pc = "done" => Len(panels) = Len(agents))

\* the third call failed after two panels were displayed
C9_Witness ==
    /\ SummarizationFailed
    /\ Len(calls) = 3
    /\ Len(panels) = 2

-----------------------------------------------------------------------------
(* C10 *)

\* when the aggregator runs the list holds one entry for each selected layer
\* whose fetch succeeded and none for any other layer
DigestMatchesFetches ==
    AggregatorRan =>
        /\ \A l \in Layers :
              Cardinality(EntriesOf(l)) =
                  IF l \in Range(show_layers) /\ FetchSucceeded(l)
                  THEN 1 ELSE 0
        /\ Len(graphs) =
              Cardinality({l \in Range(show_layers) : FetchSucceeded(l)})

\* C10: the list of entries is empty when a run starts, only grows during
\* the run, and when the aggregator runs it holds exactly one entry for each
\* selected layer whose fetch succeeded and none for a layer that was not
\* selected or whose fetch failed.
C10_DigestSequence ==
    /\ [](pc = "Earthquakes" => graphs = <<>>)
    /\ [][CycleOver \/ IsPrefix(graphs, graphs')]_vars
    /\ []DigestMatchesFetches

\* the aggregator ran with two entries while a selected layer was skipped
\* (empty air-quality answer) and a selected layer has no block (Weather)
C10_Witness ==
    /\ pc = "agents"
    /\ Len(graphs) >= 2
    /\ "Weather" \in Range(show_layers)
    /\ "Air Quality" \in Range(show_layers)
    /\ aq = [results |-> <<>>]

====
